---- MODULE Spec2Model ----
(***************************************************************************)
(* A model of the two polymorphic hierarchies of the repository:           *)
(*   src/ex0/stream_processor.py  NumericProcessor, TextProcessor,         *)
(*                                LogProcessor (validate / process)        *)
(*   src/ex1/data_stream.py       SensorStream, TransactionStream,         *)
(*                                EventStream (process_batch, filter_data, *)
(*                                get_stats) and StreamProcessor           *)
(*                                                                         *)
(* Python values are records [t, n, d, s]: t is the Python type, n/d the   *)
(* exact value of a number (d > 0, lowest terms), s the characters of a    *)
(* string, one character per element.  A bool is an int in Python          *)
(* (isinstance(True, int) holds) and is modelled so.  Floats are modelled  *)
(* by their exact rational value; the strings of the input domain hold no  *)
(* exponent, "inf", "nan" or "_" forms, and the integers stay far inside   *)
(* the range of a float.                                                   *)
(***************************************************************************)
EXTENDS Integers, Sequences, FiniteSets, TLC

VARIABLES
    stream,     \* a stream object: [kind, stream_id, stats]
    inp,        \* the batch handed to process_batch
    raised,     \* the exception the last call ended in, or "none"
    returned,   \* what the last call returned
    last,       \* the last operation performed
    streams,    \* StreamProcessor.streams, in registration order
    calls,      \* the process_batch calls made by the last process_all
    printed,    \* what the last show_all_stats printed
    data,       \* the record handed to a processor
    result      \* the outcome of the last validate / process call

vars == <<stream, inp, raised, returned, last, streams, calls, printed, data, result>>

streamVars == <<stream, inp, raised, returned, last>>
registryVars == <<streams, calls, printed>>
procVars == <<data, result>>

----------------------------------------------------------------------------
(* Bounds *)

MaxLen == 3          \* longest batch handed to one process_batch call
MaxSeqLen == 2       \* longest batch in a sequence of process_batch calls
MaxStreams == 3      \* most streams registered with a StreamProcessor
MaxListLen == 3      \* longest list handed to a processor

----------------------------------------------------------------------------
(* Python values *)

None == [t |-> "none", n |-> 0, d |-> 1, s |-> <<>>]
PyInt(i) == [t |-> "int", n |-> i, d |-> 1, s |-> <<>>]
PyBool(b) == [t |-> "bool", n |-> IF b THEN 1 ELSE 0, d |-> 1, s |-> <<>>]
PyStr(cs) == [t |-> "str", n |-> 0, d |-> 1, s |-> cs]

Abs(i) == IF i < 0 THEN -i ELSE i

RECURSIVE GCD(_, _)
GCD(a, b) == IF b = 0 THEN a ELSE GCD(b, a % b)

\* a float of exact value n/d
PyFloat(n, d) ==
    LET g == GCD(Abs(n), d)
    IN [t |-> "float", n |-> n \div g, d |-> d \div g, s |-> <<>>]

\* isinstance(item, (int, float)): bool is a subclass of int
IsIntOrFloat(item) == item.t \in {"int", "float", "bool"}
IsStr(item) == item.t = "str"

\* a + b of two numbers: int + int is an int, anything with a float is a float
PyAdd(a, b) ==
    IF a.t = "float" \/ b.t = "float"
    THEN PyFloat(a.n * b.d + b.n * a.d, a.d * b.d)
    ELSE PyInt(a.n + b.n)

\* a - b of two ints
PySub(a, b) == PyInt(a.n - b.n)

\* a // k in place of a / k: the floor of the quotient
PyTrueDiv_Floor(a, k) == PyInt(a.n \div (a.d * k))

\* a / k, true division: always a float
PyTrueDiv(a, k) == PyFloat(a.n, a.d * k)

----------------------------------------------------------------------------
(* Python strings *)

Digits == <<"0", "1", "2", "3", "4", "5", "6", "7", "8", "9">>
Uppers == <<"A", "B", "C", "D", "E", "F", "G", "H", "I", "J", "K", "L", "M",
            "N", "O", "P", "Q", "R", "S", "T", "U", "V", "W", "X", "Y", "Z">>
Lowers == <<"a", "b", "c", "d", "e", "f", "g", "h", "i", "j", "k", "l", "m",
            "n", "o", "p", "q", "r", "s", "t", "u", "v", "w", "x", "y", "z">>

IsDigit(c) == \E i \in 1..10 : Digits[i] = c
DigitVal(c) == (CHOOSE i \in 1..10 : Digits[i] = c) - 1
IsSpace(c) == c = " "

\* sub in s
Contains(s, sub) ==
    \E i \in 0..(Len(s) - Len(sub)) : SubSeq(s, i + 1, i + Len(sub)) = sub

\* s.startswith(prefix)
StartsWith(s, prefix) ==
    Len(s) >= Len(prefix) /\ SubSeq(s, 1, Len(prefix)) = prefix

\* s.lower()
LowerChar(c) ==
    IF \E i \in 1..26 : Uppers[i] = c
    THEN Lowers[CHOOSE i \in 1..26 : Uppers[i] = c]
    ELSE c
Lower(s) == [i \in 1..Len(s) |-> LowerChar(s[i])]

\* s.strip()
RECURSIVE LStrip(_)
LStrip(s) == IF s # <<>> /\ IsSpace(Head(s)) THEN LStrip(Tail(s)) ELSE s
RECURSIVE RStrip(_)
RStrip(s) ==
    IF s # <<>> /\ IsSpace(s[Len(s)]) THEN RStrip(SubSeq(s, 1, Len(s) - 1)) ELSE s
Strip(s) == RStrip(LStrip(s))

\* the position of the first sep in s, 0 when there is none
FirstIndex(s, sep) ==
    IF \E i \in 1..Len(s) : s[i] = sep
    THEN CHOOSE i \in 1..Len(s) : s[i] = sep /\ \A j \in 1..(i - 1) : s[j] # sep
    ELSE 0

\* s.split(sep): the list of the parts between the separators
RECURSIVE Split(_, _)
Split(s, sep) ==
    LET i == FirstIndex(s, sep)
    IN IF i = 0 THEN <<s>>
       ELSE <<SubSeq(s, 1, i - 1)>> \o Split(SubSeq(s, i + 1, Len(s)), sep)

\* s.split(sep, 1): at most one split, at the first separator
Split1(s, sep) ==
    LET i == FirstIndex(s, sep)
    IN IF i = 0 THEN <<s>>
       ELSE <<SubSeq(s, 1, i - 1), SubSeq(s, i + 1, Len(s))>>

\* len(s.split()): the number of runs of non-whitespace characters
WordCount(s) ==
    Cardinality({i \in 1..Len(s) :
        ~IsSpace(s[i]) /\ (i = 1 \/ IsSpace(s[i - 1]))})

AllDigits(s) == \A i \in 1..Len(s) : IsDigit(s[i])

\* the value of a string of digits
RECURSIVE DigitsVal(_)
DigitsVal(s) ==
    IF s = <<>> THEN 0
    ELSE 10 * DigitsVal(SubSeq(s, 1, Len(s) - 1)) + DigitVal(s[Len(s)])

RECURSIVE Pow10(_)
Pow10(k) == IF k = 0 THEN 1 ELSE 10 * Pow10(k - 1)

IsSign(c) == c = "+" \/ c = "-"
Unsigned(s) == IF s # <<>> /\ IsSign(Head(s)) THEN Tail(s) ELSE s
SignOf(s) == IF s # <<>> /\ Head(s) = "-" THEN -1 ELSE 1

\* an optional sign and digits: the value, or a ValueError
IntOfBody(sign, body) ==
    IF body # <<>> /\ AllDigits(body)
    THEN [exc |-> "none", val |-> PyInt(sign * DigitsVal(body))]
    ELSE [exc |-> "ValueError", val |-> None]

\* int(s) of a string: surrounding whitespace, an optional sign, digits.
\* [exc |-> "ValueError"] when s is no integer literal.
IntOfStr(s) == IntOfBody(SignOf(Strip(s)), Unsigned(Strip(s)))

\* digits "." digits, at least one digit in all: the value, or a ValueError
FloatOfDigits(sign, whole, frac) ==
    IF AllDigits(whole) /\ AllDigits(frac) /\ Len(whole) + Len(frac) > 0
    THEN [exc |-> "none",
          val |-> PyFloat(sign * (DigitsVal(whole) * Pow10(Len(frac)) + DigitsVal(frac)),
                          Pow10(Len(frac)))]
    ELSE [exc |-> "ValueError", val |-> None]

FloatOfParts(sign, parts) ==
    IF Len(parts) = 1 THEN FloatOfDigits(sign, parts[1], <<>>)
    ELSE IF Len(parts) = 2 THEN FloatOfDigits(sign, parts[1], parts[2])
    ELSE [exc |-> "ValueError", val |-> None]

\* float(s) of a string: surrounding whitespace, an optional sign, digits
\* with at most one ".", at least one digit.
FloatOfStr(s) == FloatOfParts(SignOf(Strip(s)), Split(Unsigned(Strip(s)), "."))

\* float(x) of any value
FloatOf(x) ==
    IF IsIntOrFloat(x) THEN [exc |-> "none", val |-> PyFloat(x.n, x.d)]
    ELSE IF IsStr(x) THEN FloatOfStr(x.s)
    ELSE [exc |-> "TypeError", val |-> None]

----------------------------------------------------------------------------
(* DataStream and its three variants *)

Kinds == {"sensor", "transaction", "event"}

Colon == <<":">>

\* DataStream.__init__: the stream_id and an empty stats dict
NewStream(kind, id) ==
    [kind |-> kind, stream_id |-> id, stats |-> [k \in {} |-> 0]]

\* stats.get(key, default)
Get(stats, key, default) == IF key \in DOMAIN stats THEN stats[key] ELSE default

\* DataStream.filter_data: the entries that are not None, in order
BaseFilter(batch) == SelectSeq(batch, LAMBDA item : item # None)

\* SensorStream.filter_data without the ":" test: every string is kept
SensorFilter_AllStrings(batch) ==
    SelectSeq(BaseFilter(batch), LAMBDA item : IsIntOrFloat(item) \/ IsStr(item))

\* SensorStream.filter_data: numbers and strings holding ":"
SensorFilter(batch) ==
    SelectSeq(BaseFilter(batch),
              LAMBDA item : \/ IsIntOrFloat(item)
                            \/ (IsStr(item) /\ Contains(item.s, Colon)))

\* TransactionStream.filter_data: strings starting with "buy:" or "sell:"
TransactionFilter(batch) ==
    SelectSeq(BaseFilter(batch),
              LAMBDA item : /\ IsStr(item)
                            /\ \/ StartsWith(item.s, <<"b", "u", "y", ":">>)
                               \/ StartsWith(item.s, <<"s", "e", "l", "l", ":">>))

\* EventStream.filter_data: strings
EventFilter(batch) == SelectSeq(BaseFilter(batch), IsStr)

\* `_, val = item.split(":"); float(val)`: unpacking anything but two parts
\* is a ValueError
FloatOfSecond(parts) ==
    IF Len(parts) # 2 THEN [exc |-> "ValueError", val |-> None]
    ELSE FloatOfStr(parts[2])

\* the value of one entry, or the exception the conversion ends in
SensorValue(item) ==
    IF IsStr(item) /\ Contains(item.s, Colon)
    THEN FloatOfSecond(Split(item.s, ":"))
    ELSE FloatOf(item)

\* one pass of the loop of SensorStream.process_batch: ValueError and
\* TypeError are caught and counted
SensorStep(acc, v) ==
    IF v.exc = "none"
    THEN [acc EXCEPT !.total = PyAdd(@, v.val), !.count = @ + 1]
    ELSE [acc EXCEPT !.errors = @ + 1]

RECURSIVE SensorLoop(_, _)
SensorLoop(items, acc) ==
    IF items = <<>> THEN acc
    ELSE SensorLoop(Tail(items), SensorStep(acc, SensorValue(Head(items))))

\* the average as the mean of the parsed readings: total / count
SensorMean(acc) ==
    [exc |-> "none",
     val |-> IF acc.count = 0 THEN PyFloat(0, 1) ELSE PyFloat(acc.total.n, acc.total.d * acc.count)]
SensorAverage_Mean(batch) ==
    SensorMean(SensorLoop(SensorFilter(batch),
                          [total |-> PyInt(0), errors |-> 0, count |-> 0]))

\* the "average" of SensorStream.process_batch: the value of the first raw
\* element of the batch (0 for an empty batch), outside any try block
SensorAverage(batch) ==
    SensorValue(IF batch # <<>> THEN batch[1] ELSE PyInt(0))

\* the end of SensorStream.process_batch: an exception of the average leaves
\* before count, errors and average are stored
SensorStore(s1, acc, average) ==
    IF average.exc # "none"
    THEN [exc |-> average.exc, stats |-> s1]
    ELSE [exc |-> "none",
          stats |-> ("average" :> average.val) @@ ("errors" :> acc.errors)
                      @@ ("count" :> acc.count) @@ s1]

\* SensorStream.process_batch: last_batch is stored first
SensorProcessBatch(stats, batch) ==
    SensorStore(("last_batch" :> batch) @@ stats,
                SensorLoop(SensorFilter(batch),
                           [total |-> PyInt(0), errors |-> 0, count |-> 0]),
                SensorAverage(batch))

\* `op, val = item.split(":"); value = int(val)`
TransactionValue(parts) ==
    IF Len(parts) # 2 THEN [exc |-> "ValueError", val |-> None]
    ELSE IntOfStr(parts[2])

\* a sell added to net_flow in place of subtracted
TransactionStep_SellAdds(acc, op, v) ==
    IF v.exc # "none" THEN [acc EXCEPT !.errors = @ + 1]
    ELSE [acc EXCEPT !.net_flow = PyAdd(@, v.val), !.operations = @ + 1]

\* one pass of the loop of TransactionStream.process_batch: ValueError,
\* TypeError and IndexError are caught and counted
TransactionStep(acc, op, v) ==
    IF v.exc # "none" THEN [acc EXCEPT !.errors = @ + 1]
    ELSE IF op = <<"b", "u", "y">>
         THEN [acc EXCEPT !.net_flow = PyAdd(@, v.val), !.operations = @ + 1]
    ELSE IF op = <<"s", "e", "l", "l">>
         THEN [acc EXCEPT !.net_flow = PySub(@, v.val), !.operations = @ + 1]
    ELSE [acc EXCEPT !.operations = @ + 1]

TransactionItem(acc, parts) == TransactionStep(acc, parts[1], TransactionValue(parts))

RECURSIVE TransactionLoop(_, _)
TransactionLoop(items, acc) ==
    IF items = <<>> THEN acc
    ELSE TransactionLoop(Tail(items),
                         TransactionItem(acc, Split(Head(items).s, ":")))

TransactionStore(s1, acc) ==
    [exc |-> "none",
     stats |-> ("count" :> acc.operations) @@ ("net_flow" :> acc.net_flow)
                 @@ ("errors" :> acc.errors) @@ s1]

\* TransactionStream.process_batch
TransactionProcessBatch(stats, batch) ==
    TransactionStore(("last_batch" :> batch) @@ stats,
                     TransactionLoop(TransactionFilter(batch),
                         [errors |-> 0, operations |-> 0, net_flow |-> PyInt(0)]))

\* the test without .lower(): only the lower-case "error" is counted
EventStep_CaseSensitive(acc, item) ==
    IF Contains(item.s, <<"e", "r", "r", "o", "r">>)
    THEN [acc EXCEPT !.count = @ + 1, !.errors = @ + 1]
    ELSE [acc EXCEPT !.count = @ + 1]

\* one pass of the loop of EventStream.process_batch
EventStep(acc, item) ==
    IF Contains(Lower(item.s), <<"e", "r", "r", "o", "r">>)
    THEN [acc EXCEPT !.count = @ + 1, !.errors = @ + 1]
    ELSE [acc EXCEPT !.count = @ + 1]

RECURSIVE EventLoop(_, _)
EventLoop(items, acc) ==
    IF items = <<>> THEN acc
    ELSE EventLoop(Tail(items), EventStep(acc, Head(items)))

EventStore(s1, acc) ==
    [exc |-> "none",
     stats |-> ("errors" :> acc.errors) @@ ("count" :> acc.count) @@ s1]

\* EventStream.process_batch
EventProcessBatch(stats, batch) ==
    EventStore(("last_batch" :> batch) @@ stats,
               EventLoop(EventFilter(batch), [errors |-> 0, count |-> 0]))

\* the stream with the stats a call left, and the exception the call ended in
Outcome(s, r) == [exc |-> r.exc, stream |-> [s EXCEPT !.stats = r.stats]]

\* stream.process_batch(batch), dispatched on the variant
ProcessBatchOf(s, batch) ==
    Outcome(s, IF s.kind = "sensor" THEN SensorProcessBatch(s.stats, batch)
               ELSE IF s.kind = "transaction"
                    THEN TransactionProcessBatch(s.stats, batch)
               ELSE EventProcessBatch(s.stats, batch))

\* format(x, ".1f"): sign, whole part and one decimal, rounded half to even
Format1f(x) ==
    LET q == (10 * Abs(x.n)) \div x.d
        r == (10 * Abs(x.n)) % x.d
        tenths == IF 2 * r > x.d THEN q + 1
                  ELSE IF 2 * r = x.d THEN q + (q % 2)
                  ELSE q
    IN <<IF x.n < 0 THEN "-" ELSE "", tenths \div 10, ".", tenths % 10>>

\* format(x, "+") of an int: always a sign
FormatPlus(x) == <<IF x.n < 0 THEN "-" ELSE "+", Abs(x.n)>>

\* SensorStream.get_stats: the pieces of the text, in order (the degree sign
\* before the "C" is left out)
SensorGetStats(s) ==
    <<"Initializing Sensor Stream...\n",
      "Stream ID: ", s.stream_id, ", Type: Environmental Data\n",
      "Processing sensor batch: ", Get(s.stats, "last_batch", <<>>), "\n",
      "Sensor analysis: ", Get(s.stats, "count", 0), " readings processed, ",
      "avg temp: ", Format1f(Get(s.stats, "average", PyInt(0))), "C\n">>

\* TransactionStream.get_stats
TransactionGetStats(s) ==
    <<"Initializing Transaction Stream...\n",
      "Stream ID: ", s.stream_id, ", Type: Financial Data\n",
      "Processing transaction batch: ", Get(s.stats, "last_batch", <<>>), "\n",
      "Transaction analysis: ", Get(s.stats, "count", 0), " operations, ",
      "net flow: ", FormatPlus(Get(s.stats, "net_flow", PyInt(0))), " units\n">>

\* EventStream.get_stats
EventGetStats(s) ==
    <<"Initializing Event Stream...\n",
      "Stream ID: ", s.stream_id, ", Type: System Events\n",
      "Processing event batch: ", Get(s.stats, "last_batch", <<>>), "\n",
      "Event analysis: ", Get(s.stats, "count", 0), " events, ",
      Get(s.stats, "errors", 0), " error detected\n">>

\* stream.get_stats(), dispatched on the variant
GetStatsOf(s) ==
    IF s.kind = "sensor" THEN SensorGetStats(s)
    ELSE IF s.kind = "transaction" THEN TransactionGetStats(s)
    ELSE EventGetStats(s)

\* a get_stats that takes last_batch out of stats (pop in place of get)
AfterGetStats_PopsBatch(s) ==
    [s EXCEPT !.stats = [k \in DOMAIN @ \ {"last_batch"} |-> @[k]]]

\* what get_stats leaves of the stream: it only reads
AfterGetStats(s) == s

----------------------------------------------------------------------------
(* The input domain: the entries a batch is drawn from *)

Str(cs) == PyStr(cs)

\* the batches of __main__ (data_stream.py, lines 200-204)
SensorDemo ==
    <<Str(<<"t", "e", "m", "p", ":", "2", "2", ".", "5">>),
      Str(<<"h", "u", "m", "i", "d", "i", "t", "y", ":", "6", "5">>),
      Str(<<"p", "r", "e", "s", "s", "u", "r", "e", ":", "1", "0", "1", "3">>)>>
TransactionDemo ==
    <<Str(<<"b", "u", "y", ":", "1", "0", "0">>), Str(<<"s", "e", "l", "l", ":", "1", "5", "0">>),
      Str(<<"b", "u", "y", ":", "7", "5">>)>>
EventDemo ==
    <<Str(<<"l", "o", "g", "i", "n">>), Str(<<"e", "r", "r", "o", "r">>),
      Str(<<"l", "o", "g", "o", "u", "t">>)>>

SensorPool ==
    {SensorDemo[1], SensorDemo[2], SensorDemo[3],
     None, PyInt(5), PyFloat(5, 2), PyBool(TRUE),
     Str(<<"t", ":", "x">>),                   \* no number after the ":"
     Str(<<"a", ":", "1", ":", "2">>),         \* two ":"
     Str(<<"t", ":", " ", "-", "1", ".", "5">>),  \* a negative value, with whitespace
     Str(<<"7">>),                             \* a number, but no ":"
     Str(<<"o", "k">>)}                        \* neither

TransactionPool ==
    {TransactionDemo[1], TransactionDemo[2], TransactionDemo[3],
     None, PyInt(5),
     Str(<<"b", "u", "y", ":", "x">>),         \* no integer
     Str(<<"s", "e", "l", "l", ":", "1", ".", "5">>),  \* a float
     Str(<<"b", "u", "y", ":", "1", ":", "2">>),  \* two ":"
     Str(<<"s", "e", "l", "l", ":", "-", "2", "0">>),  \* a negative amount
     Str(<<"b", "u", "y", ":">>),              \* nothing after the ":"
     Str(<<"b", "u", "y", "e", "r", ":", "5">>)}  \* not the "buy:" prefix

EventPool ==
    {EventDemo[1], EventDemo[2], EventDemo[3],
     None, PyInt(5),
     Str(<<>>),
     Str(<<"E", "R", "R", "O", "R", ":", " ", "d", "i", "s", "k">>),
     Str(<<"E", "r", "r", "o", "r", "s">>),
     Str(<<"e", "r", "r">>)}

Pool(kind) ==
    IF kind = "sensor" THEN SensorPool
    ELSE IF kind = "transaction" THEN TransactionPool
    ELSE EventPool

\* the entries of the batches of a sequence of calls
SeqPool(kind) ==
    IF kind = "sensor"
    THEN {PyInt(5), SensorDemo[1], None, Str(<<"t", ":", "x">>)}
    ELSE IF kind = "transaction"
    THEN {TransactionDemo[1], TransactionDemo[2], Str(<<"b", "u", "y", ":", "x">>), None}
    ELSE {EventDemo[1], EventDemo[2], PyInt(5), None}

\* the lists over a set of entries, up to a length
Lists(S, n) == UNION {[1..k -> S] : k \in 0..n}

StreamIds == [sensor |-> "SENSOR_001", transaction |-> "TRANS_001",
              event |-> "EVENT_001"]

NoReturn == [kind |-> "none", text |-> <<>>]
Text(pieces) == [kind |-> "text", text |-> pieces]

\* the record handed to a processor: a scalar, or a list or tuple of scalars
Scalar(v) == [t |-> v.t, n |-> v.n, d |-> v.d, s |-> v.s, l |-> <<>>]
PyList(items) == [t |-> "list", n |-> 0, d |-> 1, s |-> <<>>, l |-> items]
PyTuple(items) == [t |-> "tuple", n |-> 0, d |-> 1, s |-> <<>>, l |-> items]

NoResult == [op |-> "none", proc |-> "none", exc |-> "none", ok |-> FALSE, text |-> <<>>]

----------------------------------------------------------------------------
(* One stream: process_batch and get_stats *)

\* the last two operations, oldest first
Remember(op) ==
    IF Len(last) < 2 THEN Append(last, op) ELSE <<last[2], op>>

LastOp == IF last = <<>> THEN "init" ELSE last[Len(last)]

\* the state a process_batch call leaves: an exception leaves the call
\* without a value
AfterCall(r, b) ==
    /\ stream' = r.stream
    /\ raised' = r.exc
    /\ returned' = NoReturn
    /\ inp' = b
    /\ last' = Remember("process_batch")
    /\ UNCHANGED <<registryVars, procVars>>

\* stream.process_batch(b)
ProcessBatch(b) == AfterCall(ProcessBatchOf(stream, b), b)

\* stream.get_stats()
GetStats ==
    /\ returned' = Text(GetStatsOf(stream))
    /\ stream' = AfterGetStats(stream)
    /\ raised' = "none"
    /\ last' = Remember("get_stats")
    /\ UNCHANGED <<inp, registryVars, procVars>>

IdleRegistry == streams = <<>> /\ calls = <<>> /\ printed = <<>>
IdleProcessor == data = Scalar(None) /\ result = NoResult
IdleStream ==
    /\ stream = NewStream("sensor", StreamIds["sensor"])
    /\ inp = <<>> /\ raised = "none" /\ returned = NoReturn /\ last = <<>>

\* a stream of some variant, just constructed, and the batch it is handed
InitBatch ==
    /\ \E kind \in Kinds :
          /\ stream = NewStream(kind, StreamIds[kind])
          /\ inp \in Lists(Pool(kind), MaxLen)
    /\ raised = "none" /\ returned = NoReturn /\ last = <<>>
    /\ IdleRegistry /\ IdleProcessor

ProcessInput == ProcessBatch(inp)

NextBatch == ProcessInput \/ GetStats

\* one process_batch call on a fresh stream, and get_stats around it
SpecBatch == InitBatch /\ [][NextBatch]_vars

\* a stream of some variant, just constructed
InitSeq ==
    /\ \E kind \in Kinds : stream = NewStream(kind, StreamIds[kind])
    /\ inp = <<>> /\ raised = "none" /\ returned = NoReturn /\ last = <<>>
    /\ IdleRegistry /\ IdleProcessor

ProcessAny == \E b \in Lists(SeqPool(stream.kind), MaxSeqLen) : ProcessBatch(b)

NextSeq == ProcessAny \/ GetStats

\* any sequence of process_batch and get_stats calls on one stream
SpecSeq == InitSeq /\ [][NextSeq]_vars

----------------------------------------------------------------------------
(* StreamProcessor: the registry of streams *)

\* the batches of a process_all call, by stream_id
RegBatches ==
    [sensor |-> {SensorDemo, <<Str(<<"t", ":", "x">>)>>},
     transaction |-> {TransactionDemo},
     event |-> {EventDemo}]

\* the data_batches mappings: each id absent, or mapped to one of its batches
Mappings ==
    UNION {{m \in [{StreamIds[k] : k \in K} -> UNION {RegBatches[k] : k \in Kinds}] :
                \A k \in K : m[StreamIds[k]] \in RegBatches[k]} : K \in SUBSET Kinds}

\* data_batches.get(stream_id, [])
BatchFor(batches, id) == IF id \in DOMAIN batches THEN batches[id] ELSE <<>>

\* the outcome of process_all, from the outcome r[i] of process_batch on each
\* stream: the first call that ends in an exception ends the loop and leaves
\* process_all, the streams after it untouched
StopAt(r) ==
    IF \A i \in 1..Len(r) : r[i].exc = "none" THEN Len(r)
    ELSE CHOOSE i \in 1..Len(r) :
            r[i].exc # "none" /\ \A j \in 1..(i - 1) : r[j].exc = "none"

LoopOutcome(ss, r, stop) ==
    [exc |-> IF stop = 0 THEN "none" ELSE r[stop].exc,
     streams |-> [i \in 1..Len(ss) |-> IF i <= stop THEN r[i].stream ELSE ss[i]],
     calls |-> [i \in 1..stop |-> [index |-> i, batch |-> r[i].batch]]]

\* stream.process_batch(batch) with the batch it was handed
CallWith(s, batch) ==
    [batch |-> batch] @@ ProcessBatchOf(s, batch)

\* the loop of process_all: stream i is handed the batch under its id
ProcessAllLoop(ss, batches) ==
    LoopOutcome(ss,
        [i \in 1..Len(ss) |-> CallWith(ss[i], BatchFor(batches, ss[i].stream_id))],
        StopAt([i \in 1..Len(ss) |-> CallWith(ss[i], BatchFor(batches, ss[i].stream_id))]))

\* processor.add_stream(Variant(id))
AddStream(kind) ==
    /\ Len(streams) < MaxStreams
    /\ streams' = Append(streams, NewStream(kind, StreamIds[kind]))
    /\ calls' = <<>>
    /\ printed' = <<>>
    /\ raised' = "none"
    /\ last' = Remember("add_stream")
    /\ UNCHANGED <<stream, inp, returned, procVars>>

ProcessedAll(r, batches) ==
    /\ streams' = r.streams
    /\ calls' = r.calls
    /\ raised' = r.exc
    /\ printed' = <<>>
    /\ inp' = batches
    /\ last' = Remember("process_all")
    /\ UNCHANGED <<stream, returned, procVars>>

\* processor.process_all(batches)
ProcessAll(batches) == ProcessedAll(ProcessAllLoop(streams, batches), batches)

\* processor.show_all_stats()
ShowAllStats ==
    /\ printed' = [i \in 1..Len(streams) |-> GetStatsOf(streams[i])]
    /\ streams' = [i \in 1..Len(streams) |-> AfterGetStats(streams[i])]
    /\ calls' = <<>>
    /\ raised' = "none"
    /\ last' = Remember("show_all_stats")
    /\ UNCHANGED <<stream, inp, returned, procVars>>

\* StreamProcessor.__init__: no stream registered
InitReg == IdleRegistry /\ IdleStream /\ IdleProcessor

AddAny == \E kind \in Kinds : AddStream(kind)
ProcessAllAny == \E batches \in Mappings : ProcessAll(batches)

NextReg == AddAny \/ ProcessAllAny \/ ShowAllStats

SpecReg == InitReg /\ [][NextReg]_vars

----------------------------------------------------------------------------
(* DataProcessor and its three variants *)

Procs == {"numeric", "text", "log"}

\* DataProcessor.format_output
FormatOutput(r) == <<"Output: ">> \o r

\* NumericProcessor.validate without the test of the elements
NumericValidate_ListOnly(x) == x.t = "list"

\* NumericProcessor.validate
NumericValidate(x) ==
    IF x.t # "list" THEN FALSE
    ELSE \A i \in 1..Len(x.l) : IsIntOrFloat(x.l[i])

\* sum(data): from the int 0, left to right
RECURSIVE PySum(_, _)
PySum(items, start) ==
    IF items = <<>> THEN start ELSE PySum(Tail(items), PyAdd(start, Head(items)))

\* NumericProcessor.process
NumericProcess(x) ==
    IF ~NumericValidate(x) THEN [exc |-> "ValueError", text |-> <<>>]
    ELSE IF Len(x.l) = 0 THEN [exc |-> "ZeroDivisionError", text |-> <<>>]
    ELSE LET total == PySum(x.l, PyInt(0))
             average == PyTrueDiv(total, Len(x.l))
         IN [exc |-> "none",
             text |-> FormatOutput(<<"Processed ", Len(x.l), " numeric values, ",
                                     "sum=", total, ", avg=", average>>)]

\* TextProcessor.validate
TextValidate(x) == x.t = "str"

\* TextProcessor.process
TextProcess(x) ==
    IF ~TextValidate(x) THEN [exc |-> "ValueError", text |-> <<>>]
    ELSE [exc |-> "none",
          text |-> FormatOutput(<<"Processed text: ", Len(x.s), " characters, ",
                                  WordCount(x.s), " words">>)]

\* LogProcessor.validate
LogValidate(x) == x.t = "str" /\ Contains(x.s, Colon)

\* LogProcessor.process
LogProcess(x) ==
    IF ~LogValidate(x) THEN [exc |-> "ValueError", text |-> <<>>]
    ELSE LET parts == Split1(x.s, ":")
             level == Strip(parts[1])
             message == Strip(parts[2])
         IN [exc |-> "none",
             text |-> FormatOutput(<<"[ALERT] ", level, " level detected: ",
                                     message>>)]

ValidateOf(p, x) ==
    IF p = "numeric" THEN NumericValidate(x)
    ELSE IF p = "text" THEN TextValidate(x)
    ELSE LogValidate(x)

ProcessOf(p, x) ==
    IF p = "numeric" THEN NumericProcess(x)
    ELSE IF p = "text" THEN TextProcess(x)
    ELSE LogProcess(x)

\* the elements of the lists handed to a processor
NumPool ==
    {PyInt(1), PyInt(2), PyInt(-3), PyFloat(5, 2), PyBool(TRUE),
     Str(<<"t", "h", "r", "e", "e">>), None}

\* the records handed to a processor
Records ==
    {PyList(l) : l \in Lists(NumPool, MaxListLen)}
    \cup {PyTuple(<<PyInt(1), PyInt(2)>>),
          Scalar(PyInt(12345)), Scalar(PyFloat(25, 2)), Scalar(None),
          Scalar(Str(<<"H", "e", "l", "l", "o", " ", "N", "e", "x", "u", "s", " ", "W", "o", "r", "l", "d">>)),
          Scalar(Str(<<"W", "A", "R", "N", ":", " ", "d", "i", "s", "k", " ", "f", "u", "l", "l">>)),
          Scalar(Str(<<"I", "N", "V", "A", "L", "I", "D", " ", "L", "O", "G", " ", "E", "N", "T", "R", "Y">>))}

\* processor.validate(data)
Validate(p) ==
    /\ result' = [op |-> "validate", proc |-> p, exc |-> "none",
                  ok |-> ValidateOf(p, data), text |-> <<>>]
    /\ UNCHANGED <<data, streamVars, registryVars>>

\* processor.process(data)
Process(p) ==
    LET r == ProcessOf(p, data)
    IN /\ result' = [op |-> "process", proc |-> p, exc |-> r.exc,
                     ok |-> FALSE, text |-> r.text]
       /\ UNCHANGED <<data, streamVars, registryVars>>

InitProc ==
    /\ data \in Records
    /\ result = NoResult
    /\ IdleStream /\ IdleRegistry

ValidateAny == \E p \in Procs : Validate(p)
ProcessRecord == \E p \in Procs : Process(p)

NextProc == ValidateAny \/ ProcessRecord

SpecProc == InitProc /\ [][NextProc]_vars

----------------------------------------------------------------------------
(* What the claims speak of, stated on the batch itself *)

\* an integer or a floating-point number; a Python bool is an integer
IsNumber(x) == x.t \in {"int", "float", "bool"}
IsText(x) == x.t = "str"

ColonCount(s) == Cardinality({j \in 1..Len(s) : s[j] = ":"})
AfterColon(s) == SubSeq(s, FirstIndex(s, ":") + 1, Len(s))

\* a stream holds the stats of a batch; the last call was process_batch, and
\* it completed
Processed == "last_batch" \in DOMAIN stream.stats
Called == LastOp = "process_batch"
Completed == Called /\ raised = "none"

\* Sensor: the entries kept, and those of them that parse as a number
SensorKept(b) ==
    {i \in 1..Len(b) : IsNumber(b[i]) \/ (IsText(b[i]) /\ ColonCount(b[i].s) >= 1)}
SensorParses(x) ==
    \/ IsNumber(x)
    \/ IsText(x) /\ ColonCount(x.s) = 1 /\ FloatOfStr(AfterColon(x.s)).exc = "none"
SensorParsed(b) == {i \in SensorKept(b) : SensorParses(b[i])}

\* Sensor: the numeric value of one raw entry, when it has one
HasValue(x) ==
    \/ IsNumber(x)
    \/ IsText(x) /\ ColonCount(x.s) = 1 /\ FloatOfStr(AfterColon(x.s)).exc = "none"
    \/ IsText(x) /\ ColonCount(x.s) = 0 /\ FloatOfStr(x.s).exc = "none"
ValueOf(x) ==
    IF IsNumber(x) THEN <<x.n, x.d>>
    ELSE IF ColonCount(x.s) = 1
         THEN <<FloatOfStr(AfterColon(x.s)).val.n, FloatOfStr(AfterColon(x.s)).val.d>>
    ELSE <<FloatOfStr(x.s).val.n, FloatOfStr(x.s).val.d>>

\* two exact values n/d are the same number
SameValue(x, v) == x.n * v[2] = v[1] * x.d

\* Transaction: the entries kept, the integer after the prefix
IsBuy(x) == IsText(x) /\ Len(x.s) >= 4 /\ SubSeq(x.s, 1, 4) = <<"b", "u", "y", ":">>
IsSell(x) ==
    IsText(x) /\ Len(x.s) >= 5 /\ SubSeq(x.s, 1, 5) = <<"s", "e", "l", "l", ":">>
Amount(x) ==
    IF IsBuy(x) THEN IntOfStr(SubSeq(x.s, 5, Len(x.s)))
    ELSE IntOfStr(SubSeq(x.s, 6, Len(x.s)))
TransactionKept(b) == {i \in 1..Len(b) : IsBuy(b[i]) \/ IsSell(b[i])}
TransactionParsed(b) == {i \in TransactionKept(b) : Amount(b[i]).exc = "none"}

\* the buys minus the sells among the first i entries
RECURSIVE NetFlow(_, _)
NetFlow(b, i) ==
    IF i = 0 THEN 0
    ELSE NetFlow(b, i - 1)
         + (IF i \notin TransactionParsed(b) THEN 0
            ELSE IF IsBuy(b[i]) THEN Amount(b[i]).val.n
            ELSE -Amount(b[i]).val.n)

\* Event: the text entries, and those holding "error" in any letter case
SameLetter(c, l) == c = l \/ \E k \in 1..26 : Uppers[k] = c /\ Lowers[k] = l
HoldsError(s) ==
    \E i \in 0..(Len(s) - 5) :
        \A j \in 1..5 : SameLetter(s[i + j], <<"e", "r", "r", "o", "r">>[j])
EventTexts(b) == {i \in 1..Len(b) : IsText(b[i])}
EventErrors(b) == {i \in EventTexts(b) : HoldsError(b[i].s)}

----------------------------------------------------------------------------
(* The claims *)

\* C1 (as stated): after any sequence of process_batch calls, also calls
\* ending in an error, every aggregate stored in stats was computed from the
\* batch stored as last_batch.
C1_StatsReflectLastBatch ==
    Processed =>
        LET st == stream.stats
            b == st["last_batch"]
        IN /\ stream.kind = "sensor" =>
                /\ "count" \in DOMAIN st => st["count"] = Cardinality(SensorParsed(b))
                /\ "errors" \in DOMAIN st =>
                       st["errors"] = Cardinality(SensorKept(b) \ SensorParsed(b))
                /\ "average" \in DOMAIN st =>
                       IF b = <<>> THEN st["average"].n = 0
                       ELSE HasValue(b[1]) /\ SameValue(st["average"], ValueOf(b[1]))
           /\ stream.kind = "transaction" =>
                /\ "count" \in DOMAIN st =>
                       st["count"] = Cardinality(TransactionParsed(b))
                /\ "errors" \in DOMAIN st =>
                       st["errors"] = Cardinality(TransactionKept(b) \ TransactionParsed(b))
                /\ "net_flow" \in DOMAIN st => st["net_flow"].n = NetFlow(b, Len(b))
           /\ stream.kind = "event" =>
                /\ "count" \in DOMAIN st => st["count"] = Cardinality(EventTexts(b))
                /\ "errors" \in DOMAIN st => st["errors"] = Cardinality(EventErrors(b))

\* C2 (as stated): in every variant process_batch completes without raising
\* on every batch, and each malformed kept entry of a Sensor or Transaction
\* batch adds one to the error counter.
C2_MalformedCountedNotRaised ==
    Called =>
        /\ raised = "none"
        /\ stream.kind = "sensor" =>
               /\ "errors" \in DOMAIN stream.stats
               /\ stream.stats["errors"] = Cardinality(SensorKept(inp) \ SensorParsed(inp))
        /\ stream.kind = "transaction" =>
               /\ "errors" \in DOMAIN stream.stats
               /\ stream.stats["errors"]
                    = Cardinality(TransactionKept(inp) \ TransactionParsed(inp))

\* a record that is no sequence, and a sequence holding something that is no number
NotSequence(x) == x.t \notin {"list", "tuple"}
HoldsNonNumber(x) == \E i \in 1..Len(x.l) : ~IsNumber(x.l[i])

\* C3: validate returns a boolean and never raises; process raises
\* ValidationError (ValueError) whenever validate is false; Numeric.validate is
\* false and Numeric.process raises for every non-sequence and every sequence
\* holding a non-number.
C3_ValidateProcessContract ==
    /\ result.op = "validate" => result.exc = "none" /\ result.ok \in BOOLEAN
    /\ (result.op = "process" /\ ~ValidateOf(result.proc, data))
           => result.exc = "ValueError"
    /\ (result.proc = "numeric" /\ (NotSequence(data) \/ HoldsNonNumber(data)))
           => /\ result.op = "validate" => result.ok = FALSE
              /\ result.op = "process" => result.exc = "ValueError"

\* C3 witness: Numeric.process has raised on a list holding a non-number
C3_Witness ==
    /\ result.op = "process" /\ result.proc = "numeric"
    /\ data.t = "list" /\ Len(data.l) = 3 /\ HoldsNonNumber(data)
    /\ IsNumber(data.l[1])
    /\ result.exc = "ValueError"

\* C4: Transaction.process_batch keeps the "buy:" and "sell:" strings;
\* net_flow is the parsed buys minus the parsed sells, count the kept entries
\* that parsed, errors the kept entries that did not; the batch of __main__
\* gives 25, 3 and 0.
C4_TransactionAggregates ==
    (stream.kind = "transaction" /\ Called) =>
        /\ raised = "none"
        /\ stream.stats["last_batch"] = inp
        /\ stream.stats["net_flow"].n = NetFlow(inp, Len(inp))
        /\ stream.stats["net_flow"].t = "int"
        /\ stream.stats["count"] = Cardinality(TransactionParsed(inp))
        /\ stream.stats["errors"]
             = Cardinality(TransactionKept(inp) \ TransactionParsed(inp))
        /\ inp = TransactionDemo =>
               /\ stream.stats["net_flow"].n = 25
               /\ stream.stats["count"] = 3
               /\ stream.stats["errors"] = 0

\* C4 witness: a processed batch with a buy, a sell, a kept entry that does
\* not parse
C4_Witness ==
    /\ stream.kind = "transaction" /\ Called
    /\ inp = <<TransactionDemo[1], TransactionDemo[2], Str(<<"b", "u", "y", ":", "x">>)>>
    /\ stream.stats["net_flow"].n = -50
    /\ stream.stats["count"] = 2
    /\ stream.stats["errors"] = 1

\* C5 (as stated): process_all calls process_batch exactly once on each
\* registered stream, in registration order, with the batch under its id or
\* the empty batch; show_all_stats emits get_stats in registration order.
C5_ProcessAllCallsEachOnce ==
    /\ LastOp = "process_all" =>
           calls = [i \in 1..Len(streams) |->
                       [index |-> i,
                        batch |-> IF streams[i].stream_id \in DOMAIN inp
                                  THEN inp[streams[i].stream_id] ELSE <<>>]]
    /\ LastOp = "show_all_stats" =>
           /\ Len(printed) = Len(streams)
           /\ \A i \in 1..Len(streams) : printed[i][3] = streams[i].stream_id

\* C6: get_stats leaves stats and stream_id unchanged, and a second get_stats
\* with no process_batch in between returns the same text.  (A step that
\* returns a text is a get_stats step; process_batch returns none.)
C6_GetStatsIdempotent ==
    [][returned'.kind = "text" =>
          /\ stream' = stream
          /\ returned.kind = "text" => returned' = returned]_vars

\* C6 witness: get_stats twice in a row on a stream that has processed a batch
C6_Witness ==
    /\ last = <<"get_stats", "get_stats">>
    /\ returned.kind = "text"
    /\ "count" \in DOMAIN stream.stats

\* the sum of a list of numbers, from its last element, as <<n, d>>
RECURSIVE DirectSum(_)
DirectSum(l) ==
    IF l = <<>> THEN <<0, 1>>
    ELSE LET r == DirectSum(SubSeq(l, 1, Len(l) - 1))
             x == l[Len(l)]
         IN <<x.n * r[2] + r[1] * x.d, x.d * r[2]>>

AllNumbers(x) == x.t = "list" /\ \A i \in 1..Len(x.l) : IsNumber(x.l[i])

\* validate is true and process reports count, sum and mean
ReportsSumAndMean ==
    /\ result.op = "validate" => result.ok = TRUE
    /\ result.op = "process" =>
        /\ result.exc = "none"
        /\ Len(result.text) = 8
        /\ result.text[1] = "Output: "
        /\ result.text[3] = Len(data.l)
        /\ SameValue(result.text[6], DirectSum(data.l))
        /\ result.text[8].n * DirectSum(data.l)[2] * Len(data.l)
             = DirectSum(data.l)[1] * result.text[8].d

\* C7 (as stated): for every list of numbers, of any length, Numeric.validate
\* is true and Numeric.process returns "Output: " with the count, the sum and
\* the mean.
C7_AnyLength ==
    (result.proc = "numeric" /\ AllNumbers(data)) => ReportsSumAndMean

\* C7 (amended): the same for every list of numbers that is not empty.
C7_NonEmpty ==
    (result.proc = "numeric" /\ AllNumbers(data) /\ Len(data.l) > 0)
        => ReportsSumAndMean

\* C7 witness: Numeric.process has returned for a list of an int, a float and
\* a negative int
C7_Witness ==
    /\ result.op = "process" /\ result.proc = "numeric"
    /\ data = PyList(<<PyInt(2), PyFloat(5, 2), PyInt(-3)>>)
    /\ result.exc = "none"
    /\ result.text[6] = PyFloat(3, 2)
    /\ result.text[8] = PyFloat(1, 2)

\* C8: Sensor.process_batch, when it completes: count is the number of kept
\* entries (non-null numbers, strings holding ":") that parse as a number,
\* errors the number of kept entries that do not; the batch of __main__ gives
\* 3 and 0.
C8_SensorCounts ==
    (stream.kind = "sensor" /\ Completed) =>
        /\ stream.stats["last_batch"] = inp
        /\ stream.stats["count"] = Cardinality(SensorParsed(inp))
        /\ stream.stats["errors"] = Cardinality(SensorKept(inp) \ SensorParsed(inp))
        /\ stream.stats["count"] + stream.stats["errors"] = Cardinality(SensorKept(inp))
        /\ inp = SensorDemo => stream.stats["count"] = 3 /\ stream.stats["errors"] = 0

\* C8 witness: a completed batch with a parsed entry, a kept entry that does
\* not parse and a dropped entry
C8_Witness ==
    /\ stream.kind = "sensor" /\ Completed
    /\ inp = <<SensorDemo[1], Str(<<"a", ":", "1", ":", "2">>), Str(<<"o", "k">>)>>
    /\ stream.stats["count"] = 1
    /\ stream.stats["errors"] = 1

\* C9: Event.process_batch never raises, count is the number of text entries
\* and errors the number of them holding "error" in any letter case; the batch
\* of __main__ gives 3 and 1.
C9_EventCounts ==
    (stream.kind = "event" /\ Called) =>
        /\ raised = "none"
        /\ stream.stats["last_batch"] = inp
        /\ stream.stats["count"] = Cardinality(EventTexts(inp))
        /\ stream.stats["errors"] = Cardinality(EventErrors(inp))
        /\ stream.stats["errors"] <= stream.stats["count"]
        /\ inp = EventDemo => stream.stats["count"] = 3 /\ stream.stats["errors"] = 1

\* C9 witness: a processed batch with a null entry, an "ERROR" in capitals and
\* a text without it
C9_Witness ==
    /\ stream.kind = "event" /\ Called
    /\ inp = <<None, Str(<<"E", "R", "R", "O", "R", ":", " ", "d", "i", "s", "k">>), EventDemo[1]>>
    /\ stream.stats["count"] = 2
    /\ stream.stats["errors"] = 1

\* C10: Sensor.process_batch stores as "average" the value of the first raw
\* element alone (0 for the empty batch), whatever the other elements are;
\* a call that raises stores no average.
C10_AverageIsFirstElement ==
    (stream.kind = "sensor" /\ Called) =>
        /\ (raised = "none" /\ inp = <<>>) => stream.stats["average"] = PyFloat(0, 1)
        /\ (raised = "none" /\ inp # <<>>) =>
               /\ HasValue(inp[1])
               /\ stream.stats["average"].t = "float"
               /\ SameValue(stream.stats["average"], ValueOf(inp[1]))
        /\ raised # "none" => "average" \notin DOMAIN stream.stats

\* C10 witness: the batch of __main__, whose mean is not its first value
C10_Witness ==
    /\ stream.kind = "sensor" /\ Completed
    /\ inp = SensorDemo
    /\ stream.stats["average"] = PyFloat(45, 2)

====
